---- MODULE Spec2Model ----
(***************************************************************************)
(* One click of "Generate Comprehensive Analysis" in src/main.py: the      *)
(* configuration check, the per-domain search / synthesis loop of          *)
(* ComprehensiveStartupTrendAnalyzer, the metric and chart stages and the  *)
(* presentation of the report, with the top-level exception handler.       *)
(***************************************************************************)
EXTENDS Integers, Sequences, FiniteSets, TLC

\* ------------------------------------------------------------------ bounds
\* How many entries of STARTUP_DOMAINS the sidebar offers in the model.
NumDomains == 4
\* Longest selection the user makes.
MaxSel == 2
\* Number of states of the random generator.
RngPeriod == 46

\* ------------------------------------------------------ program constants
\* np.random.randint(50, 95)
MetricLow == 50
MetricHigh == 95

STARTUP_DOMAINS ==
    << "AI/Machine Learning", "Biotechnology", "CleanTech",
       "FinTech", "EdTech", "SpaceTech", "Cybersecurity",
       "Robotics", "Healthcare Tech", "AgriTech",
       "Quantum Computing", "Blockchain/Web3",
       "Renewable Energy", "Climate Tech",
       "Advanced Materials", "Autonomous Vehicles" >>

\* The options of the domain multiselect (a prefix of the catalog).
Catalog == { STARTUP_DOMAINS[k] : k \in 1..NumDomains }

\* What st.sidebar.multiselect can return: the chosen options, each once, in
\* the order the user chose them.
Selections ==
    UNION { { s \in [1..n -> Catalog] : \A a, b \in 1..n : a # b => s[a] # s[b] }
            : n \in 0..MaxSel }

\* What the password field can hold: nothing, or a key.
ApiKeys == { "", "gsk_key" }

RngStates == 0..(RngPeriod - 1)

\* ------------------------------------------------------------ JSON values
\* A value stored in analysis_results: its JSON type, the keys of an object,
\* and the text under its 'error' key (<<>> when it has none).
RecordKeys ==
    { "domain", "key_technologies", "market_potential", "investment_trends",
      "emerging_opportunities", "challenges" }

\* What chain.invoke can return: JsonOutputParser yields whatever JSON value
\* the model's text parses to.
ParsedOutputs ==
    { [type |-> "object", keys |-> RecordKeys, error |-> <<>>],
      [type |-> "object", keys |-> {"domain", "error"}, error |-> <<"model output">>],
      [type |-> "number", keys |-> {}, error |-> <<>>] }

\* {"error": f"Analysis failed for {domain}: {str(e)}"}
ErrorMarker(domain) ==
    [type |-> "object", keys |-> {"error"}, error |-> <<"Analysis failed for", domain>>]

\* Python's `key in value` is defined for a dict and raises TypeError for a number.
SupportsIn(value) == value.type = "object"

HasErrorNever(value) == FALSE

\* 'error' in analysis_results[domain]
HasError(value) == "error" \in value.keys

\* ------------------------------------------------------- random generator
randint_inclusive(s, low, high) == low + (s % (high - low + 1))

\* np.random.randint(low, high): an integer of [low, high) computed from the
\* generator state.
randint(s, low, high) == low + (s % (high - low))

\* The generator state after n draws.
RngAdvance(s, n) == (s + n) % RngPeriod

\* One row of metrics_data: three consecutive draws.
MetricRow(domain, s) ==
    [ Domain |-> domain,
      MarketPotential |-> randint(s, MetricLow, MetricHigh),
      InnovationScore |-> randint(RngAdvance(s, 1), MetricLow, MetricHigh),
      InvestmentAttractiveness |-> randint(RngAdvance(s, 2), MetricLow, MetricHigh) ]

\* generate_trend_metrics(domains) run from generator state s.
TrendMetrics(domains, s) ==
    [ k \in 1..Len(domains) |-> MetricRow(domains[k], RngAdvance(s, 3 * (k - 1))) ]

\* ------------------------------------------------------------------ state
VARIABLES
    groq_api_key,      \* the sidebar's key field
    selected_domains,  \* the sidebar's domain selection
    pc,                \* where the button handler is
    analyzer,          \* TRUE once ComprehensiveStartupTrendAnalyzer(...) returned
    i,                 \* index of the domain the current loop is at
    search_results,    \* the snippets of the current domain (<<>>: none yet)
    local_results,     \* analysis_results inside generate_comprehensive_analysis
    analysis_results,  \* the script's analysis_results: <<>> unbound, <<dict>> bound
    rng,               \* state of numpy's global generator
    metrics_df,        \* rows of the metrics frame
    radar_fig,         \* traces of the radar chart
    bar_fig,           \* x axis of the bar chart
    plotted,           \* figures handed to st.plotly_chart
    panels,            \* expanders of the insights tab
    messages,          \* st.warning / top-level st.error messages
    calls,             \* history: adapter calls issued and completed
    exc                \* history: where an exception left the try body

vars == << groq_api_key, selected_domains, pc, analyzer, i, search_results,
           local_results, analysis_results, rng, metrics_df, radar_fig, bar_fig,
           plotted, panels, messages, calls, exc >>

EmptyDict == [d \in {} |-> 0]

Warning == [kind |-> "warning", text |-> "Please select domains and enter API key"]
Failure == [kind |-> "error", text |-> "Analysis failed"]

Init ==
    /\ groq_api_key \in ApiKeys
    /\ selected_domains \in Selections
    /\ rng \in RngStates
    /\ pc = "button"
    /\ analyzer = FALSE
    /\ i = 0
    /\ search_results = <<>>
    /\ local_results = EmptyDict
    /\ analysis_results = <<>>
    /\ metrics_df = <<>>
    /\ radar_fig = <<>>
    /\ bar_fig = <<>>
    /\ plotted = <<>>
    /\ panels = <<>>
    /\ messages = <<>>
    /\ calls = <<>>
    /\ exc = "none"

ConfigOk_KeyOnly == groq_api_key # ""

ConfigOk_DomainsOnly == selected_domains # <<>>

\* if groq_api_key and selected_domains:
ConfigOk == groq_api_key # "" /\ selected_domains # <<>>

HandleException_Uncaught(where) ==
    /\ pc' = "crashed"
    /\ exc' = where
    /\ messages' = messages

\* except Exception as e: st.error(f"Analysis failed: {e}")
HandleException(where) ==
    /\ pc' = "done"
    /\ exc' = where
    /\ messages' = Append(messages, Failure)

\* The button was clicked: the configuration check and its else branch.
ClickButton ==
    /\ pc = "button"
    /\ IF ConfigOk
         THEN /\ pc' = "construct"
              /\ messages' = messages
         ELSE /\ pc' = "done"
              /\ messages' = Append(messages, Warning)
    /\ UNCHANGED << groq_api_key, selected_domains, analyzer, i, search_results,
                    local_results, analysis_results, rng, metrics_df, radar_fig,
                    bar_fig, plotted, panels, calls, exc >>

\* analyzer = ComprehensiveStartupTrendAnalyzer(groq_api_key), then the entry
\* of generate_comprehensive_analysis: analysis_results = {}.
Construct ==
    /\ pc = "construct"
    /\ analyzer' = TRUE
    /\ local_results' = EmptyDict
    /\ i' = 1
    /\ pc' = "search"
    /\ UNCHANGED << groq_api_key, selected_domains, search_results, analysis_results,
                    rng, metrics_df, radar_fig, bar_fig, plotted, panels, messages,
                    calls, exc >>

\* ChatGroq(...) or DuckDuckGoSearchResults() raises in __init__.
ConstructRaise ==
    /\ pc = "construct"
    /\ HandleException("construct")
    /\ UNCHANGED << groq_api_key, selected_domains, analyzer, i, search_results,
                    local_results, analysis_results, rng, metrics_df, radar_fig,
                    bar_fig, plotted, panels, calls >>

Event(op, domain, ev) == [op |-> op, domain |-> domain, ev |-> ev]

\* for domain in domains: self.search_tool.run(...) is issued.
SearchCall ==
    /\ pc = "search"
    /\ i <= Len(selected_domains)
    /\ calls' = Append(calls, Event("search", selected_domains[i], "call"))
    /\ pc' = "searching"
    /\ UNCHANGED << groq_api_key, selected_domains, analyzer, i, search_results,
                    local_results, analysis_results, rng, metrics_df, radar_fig,
                    bar_fig, plotted, panels, messages, exc >>

\* The search returns its snippets.
SearchReturn ==
    /\ pc = "searching"
    /\ search_results' = <<"snippets", selected_domains[i]>>
    /\ calls' = Append(calls, Event("search", selected_domains[i], "return"))
    /\ pc' = "invoke"
    /\ UNCHANGED << groq_api_key, selected_domains, analyzer, i, local_results,
                    analysis_results, rng, metrics_df, radar_fig, bar_fig, plotted,
                    panels, messages, exc >>

\* The search raises: line 39 is outside the loop's try, so the exception
\* leaves generate_comprehensive_analysis (its local dict is lost) and is
\* caught by the top-level handler.
SearchRaise ==
    /\ pc = "searching"
    /\ calls' = Append(calls, Event("search", selected_domains[i], "raise"))
    /\ local_results' = EmptyDict
    /\ HandleException("search")
    /\ UNCHANGED << groq_api_key, selected_domains, analyzer, i, search_results,
                    analysis_results, rng, metrics_df, radar_fig, bar_fig, plotted,
                    panels >>

\* chain.invoke({...}) is issued.
InvokeCall ==
    /\ pc = "invoke"
    /\ calls' = Append(calls, Event("invoke", selected_domains[i], "call"))
    /\ pc' = "invoking"
    /\ UNCHANGED << groq_api_key, selected_domains, analyzer, i, search_results,
                    local_results, analysis_results, rng, metrics_df, radar_fig,
                    bar_fig, plotted, panels, messages, exc >>

\* chain.invoke returns the parsed value: analysis_results[domain] = trend_response.
InvokeReturn ==
    /\ pc = "invoking"
    /\ \E trend_response \in ParsedOutputs :
          local_results' = (selected_domains[i] :> trend_response) @@ local_results
    /\ calls' = Append(calls, Event("invoke", selected_domains[i], "return"))
    /\ i' = i + 1
    /\ pc' = "search"
    /\ UNCHANGED << groq_api_key, selected_domains, analyzer, search_results,
                    analysis_results, rng, metrics_df, radar_fig, bar_fig, plotted,
                    panels, messages, exc >>

InvokeRaise_Retry ==
    /\ pc = "invoking"
    /\ local_results' = (selected_domains[i] :> ErrorMarker(selected_domains[i])) @@ local_results
    /\ calls' = Append(calls, Event("invoke", selected_domains[i], "raise"))
    /\ pc' = "invoke"
    /\ UNCHANGED << groq_api_key, selected_domains, analyzer, i, search_results,
                    analysis_results, rng, metrics_df, radar_fig, bar_fig, plotted,
                    panels, messages, exc >>

\* chain.invoke raises (the model call or the JSON parsing): except Exception
\* stores the error marker and the loop goes on.
InvokeRaise ==
    /\ pc = "invoking"
    /\ local_results' = (selected_domains[i] :> ErrorMarker(selected_domains[i])) @@ local_results
    /\ calls' = Append(calls, Event("invoke", selected_domains[i], "raise"))
    /\ i' = i + 1
    /\ pc' = "search"
    /\ UNCHANGED << groq_api_key, selected_domains, analyzer, search_results,
                    analysis_results, rng, metrics_df, radar_fig, bar_fig, plotted,
                    panels, messages, exc >>

\* The loop is exhausted: return analysis_results, bound by the script.
ReturnAnalysis ==
    /\ pc = "search"
    /\ i > Len(selected_domains)
    /\ analysis_results' = << local_results >>
    /\ pc' = "metrics"
    /\ UNCHANGED << groq_api_key, selected_domains, analyzer, i, search_results,
                    local_results, rng, metrics_df, radar_fig, bar_fig, plotted,
                    panels, messages, calls, exc >>

\* metrics_df = analyzer.generate_trend_metrics(selected_domains)
GenerateTrendMetrics ==
    /\ pc = "metrics"
    /\ metrics_df' = TrendMetrics(selected_domains, rng)
    /\ rng' = RngAdvance(rng, 3 * Len(selected_domains))
    /\ pc' = "charts"
    /\ UNCHANGED << groq_api_key, selected_domains, analyzer, i, search_results,
                    local_results, analysis_results, radar_fig, bar_fig, plotted,
                    panels, messages, calls, exc >>

\* One Scatterpolar trace per row of the frame.
RadarTraces(df) ==
    [ k \in 1..Len(df) |->
        [ name |-> df[k].Domain,
          r |-> << df[k].MarketPotential, df[k].InnovationScore,
                   df[k].InvestmentAttractiveness >> ] ]

\* px.bar(metrics_df, x='Domain', ...): the x axis.
BarAxis(df) == [ k \in 1..Len(df) |-> df[k].Domain ]

\* The series a radar figure draws: the names of its traces.
TraceNames(fig) == [ k \in 1..Len(fig) |-> fig[k].name ]

\* radar_chart, bar_chart = analyzer.create_visualizations(metrics_df)
CreateVisualizations ==
    /\ pc = "charts"
    /\ radar_fig' = RadarTraces(metrics_df)
    /\ bar_fig' = BarAxis(metrics_df)
    /\ pc' = "display"
    /\ UNCHANGED << groq_api_key, selected_domains, analyzer, i, search_results,
                    local_results, analysis_results, rng, metrics_df, plotted,
                    panels, messages, calls, exc >>

\* The header, the two tabs and the two st.plotly_chart calls.
DisplayCharts ==
    /\ pc = "display"
    /\ plotted' = << [chart |-> "radar", series |-> TraceNames(radar_fig)],
                     [chart |-> "bar", series |-> bar_fig] >>
    /\ i' = 1
    /\ pc' = "insights"
    /\ UNCHANGED << groq_api_key, selected_domains, analyzer, search_results,
                    local_results, analysis_results, rng, metrics_df, radar_fig,
                    bar_fig, panels, messages, calls, exc >>

Panel(domain, body, download) == [domain |-> domain, body |-> body, download |-> download]

\* One pass of `for domain in selected_domains` in the insights tab.
RenderPanel ==
    /\ pc = "insights"
    /\ i <= Len(selected_domains)
    /\ LET domain == selected_domains[i]
           value == analysis_results[1][domain]
       IN  IF ~SupportsIn(value)
             THEN /\ panels' = Append(panels, Panel(domain, "empty", FALSE))
                  /\ i' = i
                  /\ HandleException("render")
             ELSE /\ panels' = Append(panels,
                                  IF HasError(value)
                                    THEN Panel(domain, "error", FALSE)
                                    ELSE Panel(domain, "json", TRUE))
                  /\ i' = i + 1
                  /\ pc' = IF i = Len(selected_domains) THEN "done" ELSE "insights"
                  /\ UNCHANGED << messages, exc >>
    /\ UNCHANGED << groq_api_key, selected_domains, analyzer, search_results,
                    local_results, analysis_results, rng, metrics_df, radar_fig,
                    bar_fig, plotted, calls >>

Next ==
    \/ ClickButton
    \/ Construct
    \/ ConstructRaise
    \/ SearchCall
    \/ SearchReturn
    \/ SearchRaise
    \/ InvokeCall
    \/ InvokeReturn
    \/ InvokeRaise
    \/ ReturnAnalysis
    \/ GenerateTrendMetrics
    \/ CreateVisualizations
    \/ DisplayCharts
    \/ RenderPanel

Spec == Init /\ [][Next]_vars

\* ------------------------------------------------------------- properties
SelectedSet == { selected_domains[k] : k \in 1..Len(selected_domains) }

\* Domains whose search raised, and domains whose chain.invoke raised.
SearchFailed == { calls[k].domain : k \in { j \in 1..Len(calls) :
                     calls[j].op = "search" /\ calls[j].ev = "raise" } }
SynthFailed == { calls[k].domain : k \in { j \in 1..Len(calls) :
                     calls[j].op = "invoke" /\ calls[j].ev = "raise" } }
Issued(op, domain) == { k \in 1..Len(calls) : calls[k] = Event(op, domain, "call") }
Position(domain) == CHOOSE k \in 1..Len(selected_domains) : selected_domains[k] = domain

\* The run passed the configuration check and the analyzer was constructed.
Started == analyzer

NothingProduced ==
    /\ analysis_results = <<>>
    /\ local_results = EmptyDict
    /\ metrics_df = <<>>
    /\ radar_fig = <<>>
    /\ bar_fig = <<>>
    /\ plotted = <<>>
    /\ panels = <<>>

\* C1 (as claimed): when the search fails for a selected domain d, the finished
\* run holds a result set in which d is an error marker and every other selected
\* domain has its record.
C1_SearchFailureIsolated ==
    (pc = "done" /\ Started /\ SearchFailed # {}) =>
        /\ analysis_results # <<>>
        /\ DOMAIN analysis_results[1] = SelectedSet
        /\ \A d \in SearchFailed : analysis_results[1][d] = ErrorMarker(d)

\* C2 (as claimed): whatever the per-domain adapter outcomes, the finished run
\* holds a result set whose keys are exactly the selected domains.
C2_EveryDomainKeyed ==
    (pc = "done" /\ Started) =>
        /\ analysis_results # <<>>
        /\ DOMAIN analysis_results[1] = SelectedSet

\* C3 (as claimed): when chain.invoke fails for d, the finished run holds the
\* error marker for d, and every domain after d was searched and synthesised.
C3_SynthesisFailureIsolated ==
    (pc = "done" /\ Started) =>
        \A d \in SynthFailed :
            /\ analysis_results # <<>>
            /\ d \in DOMAIN analysis_results[1]
            /\ analysis_results[1][d] = ErrorMarker(d)
            /\ \A k \in (Position(d) + 1)..Len(selected_domains) :
                   /\ Issued("search", selected_domains[k]) # {}
                   /\ Issued("invoke", selected_domains[k]) # {}

\* C4 (as claimed): a failing search never keeps the metric and chart stages from
\* running: the finished run holds the result set with the failed domain's error
\* marker and has plotted a radar and a bar chart over exactly the selection.
C4_ChartsDespiteSearchFailure ==
    (pc = "done" /\ Started /\ SearchFailed # {}) =>
        /\ analysis_results # <<>>
        /\ \A d \in SearchFailed : d \in DOMAIN analysis_results[1]
                                   /\ analysis_results[1][d] = ErrorMarker(d)
        /\ Len(plotted) = 2
        /\ plotted[1] = [chart |-> "radar", series |-> selected_domains]
        /\ plotted[2] = [chart |-> "bar", series |-> selected_domains]

InFlight ==
    Cardinality({ k \in 1..Len(calls) : calls[k].ev = "call" })
      - Cardinality({ k \in 1..Len(calls) : calls[k].ev # "call" })

WarningOnly == messages = << Warning >>

\* C5: with an empty selection, whatever the key, no adapter call is ever issued,
\* the analyzer is not constructed, no result set, metric or chart is produced,
\* and the finished run shows exactly one message, the configuration warning.
C5_EmptySelectionOnlyWarns ==
    selected_domains = <<>> =>
        /\ calls = <<>>
        /\ ~analyzer
        /\ NothingProduced
        /\ exc = "none"
        /\ pc \in {"button", "done"}
        /\ (pc = "button" => messages = <<>>)
        /\ (pc = "done" => WarningOnly)

C5_Witness ==
    /\ selected_domains = <<>>
    /\ groq_api_key # ""
    /\ pc = "done"
    /\ messages = << Warning >>

\* C6: with an empty credential, whatever the selection, no search call and no
\* model call is ever issued, the analyzer is not constructed, and the only
\* outcome of the finished run is the configuration warning.
C6_MissingKeyNoCalls ==
    groq_api_key = "" =>
        /\ InFlight = 0
        /\ \A d \in Catalog : Issued("search", d) = {} /\ Issued("invoke", d) = {}
        /\ Len(calls) = 0
        /\ analyzer = FALSE
        /\ pc \notin {"construct", "search", "searching", "invoke", "invoking"}
        /\ NothingProduced
        /\ (pc = "done" => WarningOnly /\ exc = "none")

C6_Witness ==
    /\ groq_api_key = ""
    /\ Len(selected_domains) = MaxSel
    /\ pc = "done"
    /\ Len(messages) = 1

Failures == { k \in 1..Len(messages) : messages[k] = Failure }

\* C7: a failure that leaves the try body (raised while constructing the
\* analyzer, searching, or rendering) never ends the script abnormally: the
\* handler never stops before its end, and the finished run shows exactly one
\* generic 'Analysis failed' message, its last message; a run without such a
\* failure shows none.
C7_TopLevelCatchAll ==
    /\ pc # "crashed"
    /\ (pc = "done" \/ ENABLED Next)
    /\ (exc # "none" => pc = "done")
    /\ (exc # "none" =>
            /\ Cardinality(Failures) = 1
            /\ messages[Len(messages)] = Failure)
    /\ (exc = "none" => Failures = {})

C7_Witness ==
    /\ pc = "done"
    /\ exc = "render"
    /\ Len(panels) = 2
    /\ panels[1].body = "error"
    /\ messages = << Failure >>

Completes(k) ==
    /\ calls[k].ev \in {"return", "raise"}
    /\ calls[k].op = calls[k - 1].op
    /\ calls[k].domain = calls[k - 1].domain
    /\ calls[k - 1].ev = "call"

\* C8: the adapter calls of a run are strictly sequential and follow the
\* selection: a call is issued only when the call before it has completed, so
\* at most one is in flight; a domain's model call directly follows the return
\* of that domain's search; the search of the domain at position n + 1 directly
\* follows the completion (return or caught failure) of the model call of the
\* domain at position n; and each adapter is called at most once per domain.
C8_SequentialCalls ==
    /\ InFlight \in {0, 1}
    /\ InFlight = 1 <=> pc \in {"searching", "invoking"}
    /\ \A k \in 1..Len(calls) :
          /\ (k % 2 = 1) <=> (calls[k].ev = "call")
          /\ (k % 2 = 0) => Completes(k)
          /\ calls[k].domain \in SelectedSet
          /\ (calls[k] = Event("invoke", calls[k].domain, "call")) =>
                 calls[k - 1] = Event("search", calls[k].domain, "return")
          /\ (calls[k].op = "search" /\ calls[k].ev = "call") =>
                 IF k = 1
                   THEN calls[k].domain = selected_domains[1]
                   ELSE /\ calls[k - 1].op = "invoke"
                        /\ calls[k - 1].ev \in {"return", "raise"}
                        /\ Position(calls[k].domain) = Position(calls[k - 1].domain) + 1
    /\ \A d \in Catalog :
          /\ Cardinality(Issued("search", d)) <= 1
          /\ Cardinality(Issued("invoke", d)) <= 1

C8_Witness ==
    /\ pc = "done"
    /\ Len(selected_domains) = 2
    /\ Len(calls) = 8
    /\ calls[4].ev = "raise"
    /\ calls[8].ev = "return"

\* generate_trend_metrics has returned in this run.
MetricsGenerated ==
    \/ pc \in {"charts", "display", "insights"}
    \/ pc = "done" /\ analysis_results # <<>>

RowValues(row) ==
    { row.MarketPotential, row.InnovationScore, row.InvestmentAttractiveness }

RowsWithin(lo, hi) ==
    /\ Len(metrics_df) = Len(selected_domains)
    /\ \A k \in 1..Len(metrics_df) :
          /\ metrics_df[k].Domain = selected_domains[k]
          /\ RowValues(metrics_df[k]) \subseteq lo..hi

\* The values one draw of the metric generator can give, over its states.
DrawSupport == { randint(s, MetricLow, MetricHigh) : s \in RngStates }

\* The generator state generate_trend_metrics started from.
RngBefore == (rng + 3 * Len(selected_domains) * (RngPeriod - 1)) % RngPeriod

\* C9 (as claimed): one row per domain in input order, every metric in [50,95],
\* and every integer of [50,95], 95 included, is a value a draw can give.
C9_ClosedRangeIncluding95 ==
    /\ MetricsGenerated => RowsWithin(MetricLow, MetricHigh)
    /\ pc = "metrics" => \A v \in MetricLow..MetricHigh : v \in DrawSupport

\* C9 (amended): generate_trend_metrics returns one row per domain, in input
\* order; every metric is an integer of [50,94]; every integer of [50,94] is a
\* value a draw can give and 95 is not; the rows are a function of the domain
\* list and the generator state alone, whatever the analysis records are; and
\* the stage always runs to its end once reached.
C9_HalfOpenRange ==
    /\ MetricsGenerated =>
          /\ RowsWithin(MetricLow, MetricHigh - 1)
          /\ metrics_df = TrendMetrics(selected_domains, RngBefore)
    /\ pc = "metrics" =>
          /\ DrawSupport = MetricLow..(MetricHigh - 1)
          /\ ENABLED GenerateTrendMetrics
    /\ ~MetricsGenerated => metrics_df = <<>>

C9_Witness ==
    /\ MetricsGenerated
    /\ Len(metrics_df) = 2
    /\ metrics_df[1].MarketPotential = MetricHigh - 1
    /\ metrics_df[1].InnovationScore = MetricLow
    /\ analysis_results[1][selected_domains[1]] = ErrorMarker(selected_domains[1])

\* The run reached the presentation stage.
Presented == plotted # <<>>

====
